---- MODULE Spec2Model ----
(***************************************************************************)
(* Model of BqQueryPlan (src/src/app/bq_query_plan.ts): the constructor's  *)
(* validation, the ghost-node/edge pass, the enrichment pass, and the      *)
(* methods callable on a constructed plan.                                 *)
(*                                                                         *)
(* Conventions.  A JavaScript string is a tuple of one-character strings,  *)
(* so that startsWith, split and Number are computed, not assumed.  An     *)
(* optional property is None (absent/undefined) or Some(v).  A JavaScript  *)
(* number is NaN (the empty tuple) or Num(n).  A reference to a node is    *)
(* its position in the nodes array (the array only ever grows).            *)
(***************************************************************************)
EXTENDS Integers, Sequences, FiniteSets

\* ------------------------------------------------------------------ bounds
MaxStages == 2
MaxRefs == 2

\* ------------------------------------------------------- optional values
None == << >>
Some(v) == << v >>

\* ------------------------------------------------------- string literals
S_empty == << >>
S_0 == << "0" >>
S_1 == << "1" >>
S_2 == << "2" >>
S_3 == << "3" >>
S_a == << "a" >>
S_dd == << "_", "_" >>
S_ddt == << "_", "_", "t" >>
S_abc == << "a", "b", "c" >>
S_1000 == << "1", "0", "0", "0" >>
S_3000 == << "3", "0", "0", "0" >>
S_10000 == << "1", "0", "0", "0", "0" >>
S_1234 == << "1", "2", "3", "4" >>
S_7 == << "7" >>
S_big == << "b", "i", "g" >>
S_bigquery == << "b", "i", "g", "q", "u", "e", "r", "y" >>
S_bigqueryjob == S_bigquery \o << "#", "j", "o", "b" >>
S_other == << "o", "t", "h", "e", "r" >>
S_FROM == << "F", "R", "O", "M", " " >>
S_WHERE == << "W", "H", "E", "R", "E", " ", "x" >>
S_job == << "j", "1" >>
\* the one-character infinity sign that toLocaleString prints, kept in ASCII
S_infinity == << "Infinity" >>

\* ------------------------------------------------- String.prototype bits
\* s.startsWith(p)
StartsWith(s, p) ==
    /\ Len(s) >= Len(p)
    /\ SubSeq(s, 1, Len(p)) = p

\* s.split(' '): the pieces between single spaces, empty pieces included
RECURSIVE SplitFrom(_, _, _)
SplitFrom(s, pos, cur) ==
    IF pos > Len(s) THEN << cur >>
    ELSE IF s[pos] = " " THEN << cur >> \o SplitFrom(s, pos + 1, << >>)
    ELSE SplitFrom(s, pos + 1, Append(cur, s[pos]))

Split(s) == SplitFrom(s, 1, << >>)

\* substeps.find(substep => substep.startsWith('FROM ')): the first such
\* substep, or undefined
FindFromSubstep(substeps) ==
    LET hits == { n \in 1..Len(substeps) : StartsWith(substeps[n], << "F", "R", "O", "M", " " >>) }
    IN  IF hits = {} THEN None
        ELSE Some(substeps[CHOOSE n \in hits : \A m \in hits : n <= m])

\* --------------------------------------------------------------- numbers
NaN == << >>
Num(n) == << n >>
isNaN(x) == x = NaN

Digits == << "0", "1", "2", "3", "4", "5", "6", "7", "8", "9" >>
IsDigit(c) == \E d \in 1..10 : Digits[d] = c
DigitVal(c) == (CHOOSE d \in 1..10 : Digits[d] = c) - 1

RECURSIVE ParseDigits(_, _)
ParseDigits(s, acc) ==
    IF s = << >> THEN acc
    ELSE ParseDigits(Tail(s), 10 * acc + DigitVal(Head(s)))

\* Number(v) for v undefined or a string: undefined -> NaN, "" -> 0,
\* a string of decimal digits -> its value, any other string here -> NaN
Number(v) ==
    IF v = None THEN NaN
    ELSE IF \A n \in 1..Len(v[1]) : IsDigit(v[1][n])
         THEN Num(ParseDigits(v[1], 0))
         ELSE NaN

\* !v for v undefined or a string: undefined and "" are falsy
Falsy(v) == v = None \/ v = Some(S_empty)

RECURSIVE NatToString(_)
NatToString(n) ==
    IF n < 10 THEN << Digits[n + 1] >>
    ELSE Append(NatToString(n \div 10), Digits[(n % 10) + 1])

\* digits with a comma before every group of three, as the "en" locale does
RECURSIVE Grouped(_)
Grouped(n) ==
    IF n < 1000 THEN NatToString(n)
    ELSE LET low == n % 1000
             pad == IF low < 10 THEN << "0", "0" >>
                    ELSE IF low < 100 THEN << "0" >> ELSE << >>
         IN  Grouped(n \div 1000) \o << "," >> \o pad \o NatToString(low)

\* up to three fraction digits, trailing zeros dropped
FractionDigits(f) ==
    IF f = 0 THEN << >>
    ELSE LET three == << Digits[(f \div 100) + 1], Digits[((f \div 10) % 10) + 1],
                         Digits[(f % 10) + 1] >>
             keep == IF f % 10 # 0 THEN 3 ELSE IF f % 100 # 0 THEN 2 ELSE 1
         IN  << "." >> \o SubSeq(three, 1, keep)

\* (num / den).toLocaleString('en') for integers num, den
QuotientToLocaleString(num, den) ==
    IF den = 0
    THEN IF num = 0 THEN << "N", "a", "N" >>
         ELSE IF num > 0 THEN S_infinity ELSE << "-" >> \o S_infinity
    ELSE LET an == IF num < 0 THEN 0 - num ELSE num
             ad == IF den < 0 THEN 0 - den ELSE den
             neg == (num < 0) # (den < 0)
             milli == (2 * 1000 * an + ad) \div (2 * ad)
         IN  (IF neg THEN << "-" >> ELSE << >>)
                 \o Grouped(milli \div 1000) \o FractionDigits(milli % 1000)

\* x.toLocaleString('en') for a number x
toLocaleString(x) ==
    IF isNaN(x) THEN << "N", "a", "N" >> ELSE QuotientToLocaleString(x[1], 1)


\* ------------------------------------------------------------ data shapes
\* QueryStep: kind and the optional list of substep strings
Step(kind, substeps) == [kind |-> kind, substeps |-> substeps]

NoExtra == [x \in {} |-> << >>]

\* QueryStage as it arrives in a job document.  extra holds the ad hoc
\* display properties (node['durationMs  '] ...): its domain is the set of
\* such properties the object has.
Stage(id, steps, inputStages, startMs, endMs) ==
    [id |-> id, name |-> << "S" >> \o id, steps |-> steps,
     inputStages |-> inputStages, startMs |-> startMs, endMs |-> endMs,
     waitMsAvg |-> Some(S_1234), waitMsMax |-> Some(S_3000),
     readMsAvg |-> Some(S_7), readMsMax |-> Some(S_7),
     computeMsAvg |-> Some(S_1000), computeMsMax |-> Some(S_1234),
     writeMsAvg |-> Some(S_0), writeMsMax |-> None,
     isExternal |-> FALSE, extra |-> NoExtra]

\* the object literal of the ghost node: name, id and isExternal only
GhostNode(sourceNodeId) ==
    [id |-> sourceNodeId, name |-> sourceNodeId, steps |-> None,
     inputStages |-> None, startMs |-> None, endMs |-> None,
     waitMsAvg |-> None, waitMsMax |-> None,
     readMsAvg |-> None, readMsMax |-> None,
     computeMsAvg |-> None, computeMsMax |-> None,
     writeMsAvg |-> None, writeMsMax |-> None,
     isExternal |-> TRUE, extra |-> NoExtra]

Edge(from, to, outputName) == [from |-> from, to |-> to, outputName |-> outputName]

\* ----------------------------------------------------------- getReads
Returned(v) == [threw |-> FALSE, val |-> v]
Threw == [threw |-> TRUE, val |-> << >>]

\* ReadItem without the test for the '__' prefix
ReadItem_KeepInternal(step) ==
    IF step.substeps = None THEN [threw |-> TRUE, val |-> << >>]
    ELSE LET readSubstep == FindFromSubstep(step.substeps[1])
         IN  IF readSubstep = None THEN [threw |-> TRUE, val |-> << >>]
             ELSE [threw |-> FALSE, val |-> Some(Split(readSubstep[1])[2])]

\* the callback of .map(): the read substep's second item, null (None) for
\* an item starting with '__'; a TypeError when step.substeps is undefined
\* or when no substep starts with 'FROM '
ReadItem(step) ==
    IF step.substeps = None THEN Threw
    ELSE LET readSubstep == FindFromSubstep(step.substeps[1])
         IN  IF readSubstep = None THEN Threw
             ELSE LET items == Split(readSubstep[1])
                  IN  IF StartsWith(items[2], S_dd) THEN Returned(None)
                      ELSE Returned(Some(items[2]))

\* .filter(item => item): null and the empty string are dropped
RECURSIVE KeepTruthy(_)
KeepTruthy(items) ==
    IF items = << >> THEN << >>
    ELSE IF Head(items).val = None \/ Head(items).val = Some(S_empty)
         THEN KeepTruthy(Tail(items))
         ELSE << Head(items).val[1] >> \o KeepTruthy(Tail(items))

\* getReads without the push of node.inputStages
getReads_NoInputStages(node) ==
    IF node.steps = None THEN Returned(<< >>)
    ELSE LET readSteps == SelectSeq(node.steps[1], LAMBDA step : step.kind = "READ")
             mapped == [n \in 1..Len(readSteps) |-> ReadItem(readSteps[n])]
         IN  IF \E n \in 1..Len(mapped) : mapped[n].threw THEN Threw
             ELSE Returned(KeepTruthy(mapped))

getReads(node) ==
    IF node.steps = None THEN Returned(<< >>)
    ELSE LET readSteps == SelectSeq(node.steps[1], LAMBDA step : step.kind = "READ")
             mapped == [n \in 1..Len(readSteps) |-> ReadItem(readSteps[n])]
         IN  IF \E n \in 1..Len(mapped) : mapped[n].threw THEN Threw
             ELSE LET result == KeepTruthy(mapped)
                  IN  IF node.inputStages # None
                      THEN Returned(result \o node.inputStages[1])
                      ELSE Returned(result)

\* ------------------------------------------------------------- getNode
\* getNode that never finds a ghost node
getNode_RealOnly(ns, id) ==
    LET hits == { n \in 1..Len(ns) : ns[n].id = id /\ ~ns[n].isExternal }
    IN  IF hits = {} THEN None
        ELSE Some(CHOOSE n \in hits : \A m \in hits : n <= m)

\* this.nodes.find(x => x.id === id): the first node with that id, as
\* Some(position), or None for undefined
getNode(ns, id) ==
    LET hits == { n \in 1..Len(ns) : ns[n].id = id }
    IN  IF hits = {} THEN None
        ELSE Some(CHOOSE n \in hits : \A m \in hits : n <= m)

\* ------------------------------------------------------ improveNodeInfo
SetField(extra, key, v) ==
    [x \in (DOMAIN extra) \cup {key} |-> IF x = key THEN v ELSE extra[x]]

AvgMax(avg, max) ==
    << "a", "v", "g", ":", " " >> \o toLocaleString(Number(avg))
        \o << " ", "m", "a", "x", ":", " " >> \o toLocaleString(Number(max))

PctText(ms, jobStartMs, jobEndMs) ==
    QuotientToLocaleString(100 * (ms - jobStartMs), jobEndMs - jobStartMs)
        \o << "%", " ", "o", "f", " ", "j", "o", "b", " ",
              "d", "u", "r", "a", "t", "i", "o", "n" >>

DurationText(startMs, endMs) == QuotientToLocaleString(endMs - startMs, 1)

\* the assignments of improveNodeInfo, once the four numbers are known
WithDerivedFields(node, startMs, endMs, jobStartMs, jobEndMs) ==
    LET e1 == SetField(node.extra, "durationMs  ", DurationText(startMs, endMs))
        e2 == SetField(e1, "wait (ms)   ", AvgMax(node.waitMsAvg, node.waitMsMax))
        e3 == SetField(e2, "read (ms)   ", AvgMax(node.readMsAvg, node.readMsMax))
        e4 == SetField(e3, "compute (ms)", AvgMax(node.computeMsAvg, node.computeMsMax))
        e5 == SetField(e4, "write (ms)  ", AvgMax(node.writeMsAvg, node.writeMsMax))
        e6 == SetField(e5, "startTime   ", [date |-> startMs])
        e7 == SetField(e6, "endTime     ", [date |-> endMs])
        e8 == SetField(e7, "start %     ", PctText(startMs, jobStartMs, jobEndMs))
        e9 == SetField(e8, "end %       ", PctText(endMs, jobStartMs, jobEndMs))
    IN  [node EXCEPT !.extra = e9]

\* improveNodeInfo without the early return on !node.startMs || !node.endMs
improveNodeInfo_NoFalsyReturn(node, stats) ==
    LET endMs == Number(node.endMs)
        startMs == Number(node.startMs)
        jobStartMs == Number(stats.startTime)
        jobEndMs == Number(stats.endTime)
    IN  IF isNaN(startMs) \/ isNaN(endMs) \/ isNaN(jobStartMs) \/ isNaN(jobEndMs)
        THEN node
        ELSE WithDerivedFields(node, startMs[1], endMs[1], jobStartMs[1], jobEndMs[1])

improveNodeInfo(node, stats) ==
    IF Falsy(node.startMs) \/ Falsy(node.endMs) THEN node
    ELSE LET endMs == Number(node.endMs)
             startMs == Number(node.startMs)
             jobStartMs == Number(stats.startTime)
             jobEndMs == Number(stats.endTime)
         IN  IF isNaN(startMs) \/ isNaN(endMs) \/ isNaN(jobStartMs) \/ isNaN(jobEndMs)
             THEN node
             ELSE WithDerivedFields(node, startMs[1], endMs[1],
                                    jobStartMs[1], jobEndMs[1])

\* ----------------------------------------------------- formatStageStats
\* the node as formatStageStats leaves it, and whether it returned 'n/a'
formatStageStats(node, stats) ==
    LET endMs == Number(node.endMs)
        startMs == Number(node.startMs)
        jobStartMs == Number(stats.startTime)
        jobEndMs == Number(stats.endTime)
    IN  IF isNaN(startMs) \/ isNaN(endMs) \/ isNaN(jobStartMs) \/ isNaN(jobEndMs)
        THEN [node |-> node, na |-> TRUE]
        ELSE [node |-> [node EXCEPT !.extra =
                           SetField(@, "durationMs  ",
                                    DurationText(startMs[1], endMs[1]))],
              na |-> FALSE]

\* getStepDetails: node.steps ? node.steps : []
getStepDetails(node) == IF node.steps = None THEN << >> ELSE node.steps[1]


\* --------------------------------------------------------- job documents
Statistics(query, startTime, endTime) ==
    [query |-> query, startTime |-> startTime, endTime |-> endTime]

Query(queryPlan) == [queryPlan |-> queryPlan]

Job(kind, statistics) == [kind |-> kind, id |-> S_job, statistics |-> statistics]

\* a job of kind bigquery#job with a query plan and numeric job times
PlanJob(stages) ==
    Job(Some(S_bigqueryjob),
        Some(Statistics(Some(Query(Some(stages))), Some(S_0), Some(S_10000))))

SeqsUpTo(S, n) == UNION { [1..m -> S] : m \in 0..n }

\* READ steps of a well-formed stage: a table, a stage id, an internal name
FromStep(id) == Step("READ", Some(<< S_WHERE, S_FROM \o id >>))
GraphSteps == { FromStep(S_a), FromStep(S_1), FromStep(S_ddt) }

\* every step shape getReads distinguishes
AllSteps ==
    GraphSteps \cup
    { Step("COMPUTE", Some(<< S_WHERE >>)),
      Step("COMPUTE", None),
      Step("READ", None),
      Step("READ", Some(<< >>)),
      Step("READ", Some(<< S_WHERE >>)),
      Step("READ", Some(<< S_FROM >>)),
      Step("READ", Some(<< S_FROM \o S_a, S_FROM \o S_1 >>)) }

InputIds == { S_0, S_a }
StageIdAt == << S_0, S_1, S_2, S_3 >>

\* stages at position pos of the array that use at most budget references
\* (steps plus inputStages entries); the second stage's id may repeat the
\* first stage's
StagesAt(pos, budget) ==
    { Stage(id, steps, inputStages, Some(S_1000), Some(S_3000)) :
        id \in { StageIdAt[pos] } \cup (IF pos = 2 THEN { S_0 } ELSE { }),
        steps \in { None } \cup
                  { Some(ss) : ss \in SeqsUpTo(GraphSteps, budget) },
        inputStages \in { None } \cup
                  { Some(is) : is \in { x \in SeqsUpTo(InputIds, budget) :
                                          Len(x) >= 1 } } }

Weight(stage) ==
    (IF stage.steps = None THEN 0 ELSE Len(stage.steps[1]))
        + (IF stage.inputStages = None THEN 0 ELSE Len(stage.inputStages[1]))

RECURSIVE StageLists(_, _)
StageLists(pos, budget) ==
    IF pos > MaxStages THEN { << >> }
    ELSE { << >> } \cup
         UNION { { << st >> \o rest : rest \in StageLists(pos + 1, budget - Weight(st)) } :
                 st \in { x \in StagesAt(pos, budget) : Weight(x) <= budget } }

\* documents that vary the graph
GraphJobs == { PlanJob(stages) : stages \in StageLists(1, MaxRefs) }

\* documents that vary the step shapes of the first stage
StepJobs ==
    { PlanJob(<< Stage(S_0, Some(steps), inputStages, Some(S_1000), Some(S_3000)) >>
                \o rest) :
        steps \in { x \in SeqsUpTo(AllSteps, MaxRefs) : Len(x) >= 1 },
        inputStages \in { None, Some(<< S_a >>) },
        rest \in { << >>,
                   << Stage(S_1, Some(<< FromStep(S_a) >>), Some(<< S_0 >>),
                            Some(S_1000), Some(S_3000)) >> } }

\* documents that vary the four timestamps
StageTimes == { None, Some(S_empty), Some(S_abc), Some(S_1000), Some(S_3000) }
JobTimes == { None, Some(S_empty), Some(S_abc), Some(S_0), Some(S_10000) }
TimeJobs ==
    { Job(Some(S_bigqueryjob),
          Some(Statistics(
              Some(Query(Some(<< Stage(S_0, Some(<< FromStep(S_a) >>), None,
                                       startMs, endMs) >>))),
              startTime, endTime))) :
        startMs \in StageTimes, endMs \in StageTimes,
        startTime \in JobTimes, endTime \in JobTimes }

\* documents that vary what the validation looks at
OneStage == << Stage(S_0, Some(<< FromStep(S_a) >>), None, Some(S_1000), Some(S_3000)) >>
KindJobs ==
    { Job(kind, statistics) :
        kind \in { None, Some(S_empty), Some(S_big), Some(S_other),
                   Some(S_bigquery), Some(S_bigqueryjob) },
        statistics \in { None,
                         Some(Statistics(None, Some(S_0), Some(S_10000))),
                         Some(Statistics(Some(Query(None)), Some(S_0), Some(S_10000))),
                         Some(Statistics(Some(Query(Some(<< >>))), Some(S_0), Some(S_10000))),
                         Some(Statistics(Some(Query(Some(OneStage))), Some(S_0), Some(S_10000))) } }

Jobs == GraphJobs \cup StepJobs \cup TimeJobs \cup KindJobs

\* ------------------------------------------------------------------ state
VARIABLES
    plan,      \* the job document handed to the constructor
    nodes,     \* this.nodes (after validation: the document's queryPlan array)
    edges,     \* this.edges
    isValid,   \* this.isValid
    warned,    \* the warning sent to the log service, if any
    pc,        \* where the constructor is; "done" once it has returned
    i,         \* position of `node` in the loop over this.nodes
    reads,     \* the array getReads(node) returned for the current node
    j,         \* position of sourceNodeId in reads
    ret        \* the last method call on the constructed plan and its result

vars == << plan, nodes, edges, isValid, warned, pc, i, reads, j, ret >>

NoCall == [op |-> "none", node |-> None, na |-> FALSE]

Init ==
    /\ plan \in Jobs
    /\ nodes = << >>
    /\ edges = << >>
    /\ isValid = FALSE
    /\ warned = "none"
    /\ pc = "kind"
    /\ i = 1
    /\ reads = << >>
    /\ j = 1
    /\ ret = NoCall


\* ----------------------------------------------------- the constructor
\* CheckKind without the startsWith('bigquery') test
CheckKind_NoPrefixTest ==
    /\ pc = "kind"
    /\ IF plan.kind = None
       THEN /\ warned' = "No plan document found in job."
            /\ pc' = "done"
       ELSE /\ warned' = warned
            /\ pc' = "query"
    /\ UNCHANGED << plan, nodes, edges, isValid, i, reads, j, ret >>

\* plan.hasOwnProperty('kind'), then plan.kind.startsWith('bigquery')
CheckKind ==
    /\ pc = "kind"
    /\ IF plan.kind = None
       THEN /\ warned' = "No plan document found in job."
            /\ pc' = "done"
       ELSE IF ~StartsWith(plan.kind[1], S_bigquery)
       THEN /\ warned' = "Retrieved document is not of kind bigquery"
            /\ pc' = "done"
       ELSE /\ warned' = warned
            /\ pc' = "query"
    /\ UNCHANGED << plan, nodes, edges, isValid, i, reads, j, ret >>

\* this.plan.statistics.query && this.plan.statistics.query.queryPlan;
\* reading .query of an undefined statistics is a TypeError
CheckQuery ==
    /\ pc = "query"
    /\ IF plan.statistics = None
       THEN /\ pc' = "threw"
            /\ UNCHANGED << nodes, isValid, warned >>
       ELSE IF /\ plan.statistics[1].query # None
               /\ plan.statistics[1].query[1].queryPlan # None
       THEN /\ nodes' = plan.statistics[1].query[1].queryPlan[1]
            /\ isValid' = TRUE
            /\ pc' = "nodes"
            /\ warned' = warned
       ELSE /\ warned' = "No query found in job"
            /\ pc' = "done"
            /\ UNCHANGED << nodes, isValid >>
    /\ UNCHANGED << plan, edges, i, reads, j, ret >>

\* for (const node of this.nodes): the next node, if any, and its reads;
\* the array is read afresh at every step, so appended ghost nodes are visited
NextNode ==
    /\ pc = "nodes"
    /\ IF i > Len(nodes)
       THEN /\ pc' = "improve"
            /\ i' = 1
            /\ UNCHANGED << reads, j >>
       ELSE LET r == getReads(nodes[i])
            IN  IF r.threw
                THEN /\ pc' = "threw"
                     /\ UNCHANGED << i, reads, j >>
                ELSE /\ reads' = r.val
                     /\ j' = 1
                     /\ pc' = "reads"
                     /\ i' = i
    /\ UNCHANGED << plan, nodes, edges, isValid, warned, ret >>

\* NextSource that never creates a ghost node
NextSource_NoGhost ==
    /\ pc = "reads"
    /\ IF j > Len(reads)
       THEN /\ i' = i + 1
            /\ pc' = "nodes"
       ELSE /\ pc' = "edge"
            /\ i' = i
    /\ UNCHANGED << plan, nodes, edges, isValid, warned, reads, j, ret >>

\* NextSource that looks for the source among the nodes up to the current one
NextSource_EarlierOnly ==
    /\ pc = "reads"
    /\ IF j > Len(reads)
       THEN /\ i' = i + 1
            /\ pc' = "nodes"
            /\ UNCHANGED nodes
       ELSE /\ nodes' = IF getNode(SubSeq(nodes, 1, i), reads[j]) = None
                        THEN Append(nodes, GhostNode(reads[j]))
                        ELSE nodes
            /\ pc' = "edge"
            /\ i' = i
    /\ UNCHANGED << plan, edges, isValid, warned, reads, j, ret >>

\* for (const sourceNodeId of reads): the ghost node, when getNode finds none
NextSource ==
    /\ pc = "reads"
    /\ IF j > Len(reads)
       THEN /\ i' = i + 1
            /\ pc' = "nodes"
            /\ UNCHANGED nodes
       ELSE /\ nodes' = IF getNode(nodes, reads[j]) = None
                        THEN Append(nodes, GhostNode(reads[j]))
                        ELSE nodes
            /\ pc' = "edge"
            /\ i' = i
    /\ UNCHANGED << plan, edges, isValid, warned, reads, j, ret >>

\* AddEdge with unshift in place of push
AddEdge_Unshift ==
    /\ pc = "edge"
    /\ edges' = << Edge(getNode(nodes, reads[j]), i, nodes[i].name) >> \o edges
    /\ j' = j + 1
    /\ pc' = "reads"
    /\ UNCHANGED << plan, nodes, isValid, warned, i, reads, ret >>

\* this.edges.push({from: this.getNode(sourceNodeId), to: node, ...})
AddEdge ==
    /\ pc = "edge"
    /\ edges' = Append(edges, Edge(getNode(nodes, reads[j]), i, nodes[i].name))
    /\ j' = j + 1
    /\ pc' = "reads"
    /\ UNCHANGED << plan, nodes, isValid, warned, i, reads, ret >>

\* for (const node of this.nodes) this.improveNodeInfo(node), and return
Improve ==
    /\ pc = "improve"
    /\ nodes' = [n \in 1..Len(nodes) |-> improveNodeInfo(nodes[n], plan.statistics[1])]
    /\ pc' = "done"
    /\ UNCHANGED << plan, edges, isValid, warned, i, reads, j, ret >>

\* ------------------------------------- methods of the constructed plan
LookupIds == { S_0, S_a }

GetNode ==
    /\ pc = "done"
    /\ \E id \in LookupIds :
          ret' = [op |-> "getNode", node |-> getNode(nodes, id), na |-> FALSE]
    /\ UNCHANGED << plan, nodes, edges, isValid, warned, pc, i, reads, j >>

\* formatStageStats(node), also reached through getStageStats(node), which
\* only returns this.formatStageStats(node)
FormatStageStats ==
    /\ pc = "done"
    /\ \E n \in 1..Len(nodes) :
          LET r == formatStageStats(nodes[n], plan.statistics[1])
          IN  /\ nodes' = [nodes EXCEPT ![n] = r.node]
              /\ ret' = [op |-> "formatStageStats", node |-> None, na |-> r.na]
    /\ UNCHANGED << plan, edges, isValid, warned, pc, i, reads, j >>

GetStepDetails ==
    /\ pc = "done"
    /\ \E n \in 1..Len(nodes) :
          ret' = [op |-> "getStepDetails", node |-> None,
                  na |-> getStepDetails(nodes[n]) = << >>]
    /\ UNCHANGED << plan, nodes, edges, isValid, warned, pc, i, reads, j >>

Next ==
    \/ CheckKind
    \/ CheckQuery
    \/ NextNode
    \/ NextSource
    \/ AddEdge
    \/ Improve
    \/ GetNode
    \/ FormatStageStats
    \/ GetStepDetails

Spec == Init /\ [][Next]_vars


\* =====================================================================
\* What the claims speak of, read off the job document (plan) itself
\* =====================================================================
HasKind == plan.kind # None

KindIsBigquery ==
    /\ plan.kind # None
    /\ Len(plan.kind[1]) >= 8
    /\ \A n \in 1..8 : plan.kind[1][n] = S_bigquery[n]

HasQueryPlan ==
    /\ plan.statistics # None
    /\ plan.statistics[1].query # None
    /\ plan.statistics[1].query[1].queryPlan # None

\* the stages of the document, in array order
Original == IF HasQueryPlan THEN plan.statistics[1].query[1].queryPlan[1] ELSE << >>

IsRead(step) == step.kind = "READ"
FromSubsteps(step) ==
    IF step.substeps = None THEN << >>
    ELSE SelectSeq(step.substeps[1], LAMBDA t : Len(t) >= 5 /\ SubSeq(t, 1, 5) = S_FROM)

\* the word after 'FROM ' in the step's first FROM substep
SourceWord(step) == Split(FromSubsteps(step)[1])[2]
IsInternal(word) == Len(word) >= 2 /\ word[1] = "_" /\ word[2] = "_"

StepsOf(stage) == IF stage.steps = None THEN << >> ELSE stage.steps[1]
InputsOf(stage) == IF stage.inputStages = None THEN << >> ELSE stage.inputStages[1]

\* READ steps of the stage that name a source: in step order
NamingSteps(stage) ==
    SelectSeq(StepsOf(stage),
              LAMBDA st : /\ IsRead(st)
                          /\ FromSubsteps(st) # << >>
                          /\ SourceWord(st) # << >>
                          /\ ~IsInternal(SourceWord(st)))

ReadRefs(stage) == [n \in 1..Len(NamingSteps(stage)) |-> SourceWord(NamingSteps(stage)[n])]

Range(seq) == { seq[n] : n \in 1..Len(seq) }

RECURSIVE Sum(_)
Sum(seq) == IF seq = << >> THEN 0 ELSE Head(seq) + Sum(Tail(seq))

\* a document whose stages all have a steps list and whose READ steps all
\* have a 'FROM <name>' substep
WellFormed ==
    /\ HasKind /\ KindIsBigquery /\ HasQueryPlan
    /\ \A n \in 1..Len(Original) :
          /\ Original[n].steps # None
          /\ \A m \in 1..Len(StepsOf(Original[n])) :
                IsRead(StepsOf(Original[n])[m]) =>
                    /\ FromSubsteps(StepsOf(Original[n])[m]) # << >>
                    /\ SourceWord(StepsOf(Original[n])[m]) # << >>

StageIds == { Original[n].id : n \in 1..Len(Original) }
Referenced ==
    UNION { Range(ReadRefs(Original[n])) \cup Range(InputsOf(Original[n])) :
            n \in 1..Len(Original) }
Missing == Referenced \ StageIds

\* a node without its ad hoc display properties
Raw(node) == [node EXCEPT !.extra = NoExtra]

\* the ids of the sources of the edges into the node at position n, in edge order
SourcesInto(n) ==
    LET into == SelectSeq(edges, LAMBDA e : e.to = n)
    IN  [m \in 1..Len(into) |-> IF into[m].from = None THEN << "undefined" >>
                                ELSE nodes[into[m].from[1]].id]

DerivedKeys ==
    { "durationMs  ", "wait (ms)   ", "read (ms)   ", "compute (ms)", "write (ms)  ",
      "startTime   ", "endTime     ", "start %     ", "end %       " }

\* ---------------------------------------------------------------------
\* C1: once the constructor has returned, isValid is true exactly when the
\* document has a kind, the kind starts with 'bigquery' and a query-plan
\* array exists under statistics.query; and an invalid plan has no nodes
\* and no edges.
C1_ValidIffDocumentChecksPass ==
    pc = "done" =>
        /\ isValid <=> (HasKind /\ KindIsBigquery /\ HasQueryPlan)
        /\ ~isValid => (nodes = << >> /\ edges = << >>)

C1_Witness ==
    /\ pc = "done"
    /\ ~isValid
    /\ HasKind
    /\ HasQueryPlan
    /\ Len(Original) >= 1

\* ---------------------------------------------------------------------
\* C2: construction throws no exception, whatever the job document.
C2_NoExceptionFromConstructor == pc # "threw"

\* ---------------------------------------------------------------------
\* C3: at every point of construction and afterwards, each edge's from and
\* to are nodes of the node set; from is never undefined.
C3_EdgeEndpointsAreNodes ==
    \A n \in 1..Len(edges) :
        /\ edges[n].from # None
        /\ edges[n].from[1] \in 1..Len(nodes)
        /\ edges[n].to \in 1..Len(nodes)

C3_Witness ==
    /\ pc = "reads"
    /\ \E n \in 1..Len(edges) :
          /\ edges[n].from # None
          /\ nodes[edges[n].from[1]].isExternal

\* ---------------------------------------------------------------------
\* C4: for a well-formed document with N stages and M distinct referenced
\* identifiers that are no stage's id, the final node set is the N stages
\* followed by exactly M ghost nodes, one per missing identifier, each with
\* id = name = the identifier, isExternal true and no steps.
C4_GhostPerMissingIdentifier ==
    (pc = "done" /\ WellFormed) =>
        LET N == Len(Original)
            M == Cardinality(Missing)
        IN  /\ Len(nodes) = N + M
            /\ \A n \in 1..N : Raw(nodes[n]) = Original[n]
            /\ { nodes[n].id : n \in (N + 1)..Len(nodes) } = Missing
            /\ \A n \in (N + 1)..Len(nodes) :
                  /\ nodes[n].name = nodes[n].id
                  /\ nodes[n].isExternal
                  /\ nodes[n].steps = None

\* two stages refer to the same missing identifier: one ghost node, two edges
C4_Witness ==
    /\ pc = "done"
    /\ WellFormed
    /\ Len(Original) = 2
    /\ Len(nodes) = 3
    /\ \E p, q \in 1..Len(edges) :
          /\ edges[p].to = 1 /\ edges[q].to = 2
          /\ edges[p].from = Some(3) /\ edges[q].from = Some(3)

\* ---------------------------------------------------------------------
\* C5 as stated: the number of edges of a valid plan is the number of
\* (stage, identifier) pairs with the identifier in the set union of the
\* stage's read references and its inputStages.
C5_EdgeCountIsSetUnionSize ==
    (pc = "done" /\ isValid) =>
        Len(edges) =
            Sum([n \in 1..Len(Original) |->
                    Cardinality(Range(ReadRefs(Original[n]))
                                    \cup Range(InputsOf(Original[n])))])

\* C5 as amended: the number of edges of a valid plan is the sum, over the
\* stages that have a steps list, of the number of READ steps naming a
\* non-internal source plus the number of inputStages entries, repeated
\* identifiers counted as often as they are listed; a stage without a steps
\* list contributes no edge.
C5_EdgeCountIsListLength ==
    (pc = "done" /\ isValid) =>
        Len(edges) =
            Sum([n \in 1..Len(Original) |->
                    IF Original[n].steps = None THEN 0
                    ELSE Len(ReadRefs(Original[n])) + Len(InputsOf(Original[n]))])

\* one stage lists the same input stage twice: two edges between one pair
C5_Witness ==
    /\ pc = "done"
    /\ isValid
    /\ Len(edges) = 2
    /\ edges[1] = edges[2]

\* ---------------------------------------------------------------------
\* C6: when the document's stage identifiers are pairwise distinct, the
\* node identifiers are pairwise distinct at every step of the pass and
\* in the final plan.
C6_NodeIdsStayDistinct ==
    (isValid /\ \A p, q \in 1..Len(Original) :
                    Original[p].id = Original[q].id => p = q) =>
        \A p, q \in 1..Len(nodes) : nodes[p].id = nodes[q].id => p = q

\* the first stage reads from the id of the second: resolved, not ghosted
C6_Witness ==
    /\ pc = "done"
    /\ Len(Original) = 2
    /\ Original[1].id # Original[2].id
    /\ \E n \in 1..Len(edges) : edges[n].to = 1 /\ edges[n].from = Some(2)
    /\ \E n \in 1..Len(nodes) : nodes[n].isExternal

\* ---------------------------------------------------------------------
\* C7: after construction no call of getNode, getStageStats,
\* formatStageStats or getStepDetails changes the nodes, the edges or any
\* field of any stage, and getNode keeps returning the same node.
C7_ImmutableAfterConstruction ==
    [][pc = "done" =>
          /\ nodes' = nodes
          /\ edges' = edges
          /\ \A id \in LookupIds : getNode(nodes', id) = getNode(nodes, id)]_vars

\* ---------------------------------------------------------------------
\* C8 as stated: the enrichment pass gives a stage the derived fields
\* exactly when startMs, endMs, startTime and endTime are all present and
\* convert to a number; otherwise the stage has none of them.
PresentAndNumeric(v) == v # None /\ ~isNaN(Number(v))

C8_DerivedIffAllFourNumeric ==
    (pc = "done" /\ ret = NoCall /\ isValid) =>
        \A n \in 1..Len(nodes) :
            IF /\ PresentAndNumeric(nodes[n].startMs)
               /\ PresentAndNumeric(nodes[n].endMs)
               /\ PresentAndNumeric(plan.statistics[1].startTime)
               /\ PresentAndNumeric(plan.statistics[1].endTime)
            THEN DOMAIN nodes[n].extra = DerivedKeys
            ELSE DOMAIN nodes[n].extra = { }

\* C8 as amended: the enrichment pass gives a stage the derived fields
\* exactly when startMs and endMs are present and not the empty string and
\* Number() of startMs, endMs, startTime and endTime is not NaN (an empty
\* job-level time converts to 0 and counts as a number; an empty stage
\* time skips the stage); otherwise the stage has none of them, and nothing
\* is thrown.
NonEmpty(v) == v # None /\ Len(v[1]) > 0

C8_DerivedIffTruthyAndNumeric ==
    (pc = "done" /\ ret = NoCall /\ isValid) =>
        \A n \in 1..Len(nodes) :
            IF /\ NonEmpty(nodes[n].startMs) /\ ~isNaN(Number(nodes[n].startMs))
               /\ NonEmpty(nodes[n].endMs) /\ ~isNaN(Number(nodes[n].endMs))
               /\ ~isNaN(Number(plan.statistics[1].startTime))
               /\ ~isNaN(Number(plan.statistics[1].endTime))
            THEN DOMAIN nodes[n].extra = DerivedKeys
            ELSE DOMAIN nodes[n].extra = { }

\* a stage enriched against an empty job start time, beside a ghost node
C8_Witness ==
    /\ pc = "done"
    /\ ret = NoCall
    /\ isValid
    /\ plan.statistics[1].startTime = Some(S_empty)
    /\ \E n \in 1..Len(nodes) : DOMAIN nodes[n].extra = DerivedKeys
    /\ \E n \in 1..Len(nodes) : nodes[n].isExternal /\ DOMAIN nodes[n].extra = { }

\* ---------------------------------------------------------------------
\* C9: an identifier starting with '__' that is named by a READ step and
\* listed in no stage's inputStages gets no ghost node and is the source
\* of no edge.
C9_InternalNamesAreNoSources ==
    \A s \in 1..Len(Original) : \A m \in 1..Len(StepsOf(Original[s])) :
        LET st == StepsOf(Original[s])[m]
        IN  (/\ IsRead(st)
             /\ FromSubsteps(st) # << >>
             /\ IsInternal(SourceWord(st))
             /\ \A t \in 1..Len(Original) :
                    SourceWord(st) \notin Range(InputsOf(Original[t])))
            => /\ \A n \in 1..Len(nodes) :
                      nodes[n].isExternal => nodes[n].id # SourceWord(st)
               /\ \A n \in 1..Len(edges) :
                      edges[n].from # None =>
                          nodes[edges[n].from[1]].id # SourceWord(st)

\* a stage reads FROM __t and from a table: one ghost node, one edge
C9_Witness ==
    /\ pc = "done"
    /\ isValid
    /\ Len(Original) = 1
    /\ Len(StepsOf(Original[1])) = 2
    /\ FromSubsteps(StepsOf(Original[1])[1]) # << >>
    /\ SourceWord(StepsOf(Original[1])[1]) = S_ddt
    /\ Len(nodes) = 2
    /\ Len(edges) = 1

\* ---------------------------------------------------------------------
\* C10: edges are ordered by the position of their consuming node; the
\* edges into one node follow the order of its read-step references (in
\* step order) and then its inputStages (in listed order); and whenever an
\* edge is about to be appended its source node is already in the node set.
C10_EdgeOrder ==
    /\ \A p, q \in 1..Len(edges) : p < q => edges[p].to <= edges[q].to
    /\ \A n \in 1..Len(Original) :
          LET expected == IF Original[n].steps = None THEN << >>
                          ELSE ReadRefs(Original[n]) \o InputsOf(Original[n])
              got == SourcesInto(n)
          IN  /\ Len(got) <= Len(expected)
              /\ got = SubSeq(expected, 1, Len(got))
              /\ (isValid /\ (pc \in { "improve", "done" } \/
                                (pc \in { "nodes", "reads", "edge" } /\ i > n)))
                    => got = expected
    /\ pc = "edge" => \E n \in 1..Len(nodes) : nodes[n].id = reads[j]

\* a read-step reference to a ghost, then an input stage, into one node
C10_Witness ==
    /\ pc = "done"
    /\ Len(edges) = 2
    /\ edges[1].to = edges[2].to
    /\ edges[1].from # edges[2].from
    /\ Len(ReadRefs(Original[edges[1].to])) = 1
    /\ nodes[edges[1].from[1]].isExternal

====
